---- MODULE Spec2Model ----
(***************************************************************************)
(* Model of the WR matchup engine: compute_model of src/app.py (the        *)
(* baseline variant, "base") and of src/Inputs/app.py (the deviation       *)
(* variant, "inputs").                                                     *)
(*                                                                         *)
(* Numbers are exact rationals <<n, d>> with d > 0, in lowest terms.       *)
(* <<0, 0>> is NaN, which is also how pandas represents a null cell.       *)
(* Python floats are modelled as the reals they approximate.               *)
(***************************************************************************)
EXTENDS Integers, Sequences, FiniteSets, TLC

VARIABLES variant, wr, def, cfg, tog, pc, i, lead, results, locals, out,
          shown, targets, fades

vars == <<variant, wr, def, cfg, tog, pc, i, lead, results, locals, out,
          shown, targets, fades>>

----------------------------------------------------------------------------
(* Arithmetic *)

RECURSIVE GCD(_, _)
GCD(a, b) == IF b = 0 THEN a ELSE GCD(b, a % b)

IAbs(n) == IF n < 0 THEN -n ELSE n

NaN == <<0, 0>>

IsNaN(x) == x[2] = 0

Norm(n, d) == LET g == GCD(IAbs(n), d) IN <<n \div g, d \div g>>

R(n, d) == Norm(n, d)

Zero == <<0, 1>>
One == <<1, 1>>
Two == <<2, 1>>

RAdd(a, b) ==
    IF IsNaN(a) \/ IsNaN(b) THEN NaN
    ELSE Norm(a[1] * b[2] + b[1] * a[2], a[2] * b[2])

RNeg(a) == IF IsNaN(a) THEN NaN ELSE <<-a[1], a[2]>>

RSub(a, b) == RAdd(a, RNeg(b))

RMul(a, b) ==
    IF IsNaN(a) \/ IsNaN(b) THEN NaN
    ELSE Norm(a[1] * b[1], a[2] * b[2])

\* a / b; a zero divisor yields a non-finite value (numpy) or raises (python
\* float): both are carried as NaN and surface in the fault position.
RDiv(a, b) ==
    IF IsNaN(a) \/ IsNaN(b) \/ b[1] = 0 THEN NaN
    ELSE IF b[1] > 0 THEN Norm(a[1] * b[2], a[2] * b[1])
    ELSE Norm(-(a[1] * b[2]), a[2] * (-b[1]))

\* comparisons with NaN are false, as in IEEE arithmetic
RLt(a, b) == ~IsNaN(a) /\ ~IsNaN(b) /\ a[1] * b[2] < b[1] * a[2]
RLe(a, b) == ~IsNaN(a) /\ ~IsNaN(b) /\ a[1] * b[2] <= b[1] * a[2]
RGe(a, b) == RLe(b, a)
RGt(a, b) == RLt(b, a)

RAbs(a) == IF IsNaN(a) THEN NaN ELSE <<IAbs(a[1]), a[2]>>

RECURSIVE RPow(_, _)
RPow(a, k) == IF k = 0 THEN One ELSE RMul(a, RPow(a, k - 1))

RECURSIVE IPow(_, _)
IPow(b, k) == IF k = 0 THEN 1 ELSE b * IPow(b, k - 1)

\* np.clip(x, lo, hi)
Clip(x, lo, hi) ==
    IF IsNaN(x) THEN NaN
    ELSE IF RLt(x, lo) THEN lo
    ELSE IF RGt(x, hi) THEN hi
    ELSE x

\* round(x, digits): to the nearest multiple of 10^-digits, halves to even
Round(x, digits) ==
    IF IsNaN(x) THEN NaN
    ELSE LET s == IPow(10, digits)
             n == x[1] * s
             d == x[2]
             q == n \div d
             r == n - q * d
             up == \/ 2 * r > d
                   \/ (2 * r = d /\ q % 2 = 1)
         IN  Norm(IF up THEN q + 1 ELSE q, s)

RECURSIVE RMaxSeq(_)
RMaxSeq(s) ==
    IF Len(s) = 1 THEN Head(s)
    ELSE LET m == RMaxSeq(Tail(s)) IN IF RLt(Head(s), m) THEN m ELSE Head(s)

----------------------------------------------------------------------------
(* Program constants *)

NoTeam == "none"          \* a missing opponent cell (pd.isna(opponent))

MinBase == R(2, 5)        \* 0.4
EdgeCap == R(1, 4)        \* 0.25
Hundred == <<100, 1>>
Ten == <<10, 1>>
Qualified == R(7, 20)     \* 0.35, the qualified_toggle threshold of src/app.py
Qualified35 == <<35, 1>>
Qualified20 == <<20, 1>>

----------------------------------------------------------------------------
(* Both variants: the eligibility filter at the head of the row loop *)

\* fault model: a row without routes let through
Eligible_ZeroRoutes(row, d) ==
    /\ ~(RLt(row.base_yprr, MinBase) \/ RLt(row.routes_played, Zero))
    /\ ~(row.opponent = NoTeam \/ row.opponent \notin DOMAIN d)

Eligible(row, d) ==
    /\ ~(RLt(row.base_yprr, MinBase) \/ RLe(row.routes_played, Zero))
    /\ ~(row.opponent = NoTeam \/ row.opponent \notin DOMAIN d)

----------------------------------------------------------------------------
(* src/app.py: the baseline variant *)

\* fault model: the lead taken over the rows that pass the eligibility filter
LeagueLeadRoutes_Eligible(tbl) ==
    LET el == SelectSeq(tbl, LAMBDA r : Eligible(r, def))
    IN  IF el = <<>> THEN NaN
        ELSE RMaxSeq([k \in 1..Len(el) |-> el[k].routes_played])

LeagueLeadRoutes(tbl) == RMaxSeq([k \in 1..Len(tbl) |-> tbl[k].routes_played])

RouteShare(routes, lead_routes) == RDiv(routes, lead_routes)

\* row[col] / base
Ratio(eff, base) == RDiv(eff, base)

BlitzRatio(yprr_blitz, base) ==
    IF IsNaN(yprr_blitz) THEN One ELSE RDiv(yprr_blitz, base)

CoverageComponent(t, man_ratio, zone_ratio) ==
    RAdd(RMul(t.man_pct, man_ratio), RMul(t.zone_pct, zone_ratio))

SafetySum(t, onehigh_ratio, twohigh_ratio, zerohigh_ratio) ==
    RAdd(RAdd(RMul(t.onehigh_pct, onehigh_ratio),
              RMul(t.twohigh_pct, twohigh_ratio)),
         RMul(t.zerohigh_pct, zerohigh_ratio))

TotalSafety(t) == RAdd(RAdd(t.onehigh_pct, t.twohigh_pct), t.zerohigh_pct)

\* fault model: the division done without looking at the sum
SafetyComponent_Unguarded(safety_sum, total_safety) ==
    RDiv(safety_sum, total_safety)

\* fault model: the renormalisation left out
SafetyComponent_Raw(safety_sum, total_safety) == safety_sum

SafetyComponent(safety_sum, total_safety) ==
    IF RGt(total_safety, Zero) THEN RDiv(safety_sum, total_safety)
    ELSE safety_sum

CoverageSafetyRatio(coverage_component, safety_component) ==
    RDiv(RAdd(coverage_component, safety_component), Two)

BlitzComponent(blitz_pct, blitz_ratio) ==
    RAdd(RMul(blitz_pct, blitz_ratio), RMul(RSub(One, blitz_pct), One))

ExpectedRatio(coverage_safety_ratio, blitz_component) ==
    RDiv(RAdd(coverage_safety_ratio, blitz_component), Two)

AdjustedYprr(base, expected_ratio) == RMul(base, expected_ratio)

\* fault model: the clamp left out
RawEdge_Unclamped(adjusted_yprr, base) == RDiv(RSub(adjusted_yprr, base), base)

RawEdge(adjusted_yprr, base) ==
    Clip(RDiv(RSub(adjusted_yprr, base), base), RNeg(EdgeCap), EdgeCap)

EdgePre(raw_edge) == RMul(RDiv(raw_edge, EdgeCap), Hundred)

\* fault model: the floor of the ramp applied one branch too early
Penalty_NoRamp(route_share, c) ==
    IF RGe(route_share, c.start_penalty) THEN Zero ELSE c.max_penalty

Penalty(route_share, c) ==
    IF RGe(route_share, c.start_penalty) THEN Zero
    ELSE IF RLe(route_share, c.end_penalty) THEN c.max_penalty
    ELSE RMul(c.max_penalty,
              RPow(RDiv(RSub(c.start_penalty, route_share),
                        RSub(c.start_penalty, c.end_penalty)),
                   c.exponent))

EdgeScore(edge_pre, penalty) == RMul(edge_pre, RSub(One, penalty))

\* the locals of one iteration of the row loop
ScoreRow(row, t, c, lead_routes) ==
    LET base == row.base_yprr
        route_share == RouteShare(row.routes_played, lead_routes)
        man_ratio == Ratio(row.yprr_man, base)
        zone_ratio == Ratio(row.yprr_zone, base)
        onehigh_ratio == Ratio(row.yprr_1high, base)
        twohigh_ratio == Ratio(row.yprr_2high, base)
        zerohigh_ratio == Ratio(row.yprr_0high, base)
        blitz_ratio == BlitzRatio(row.yprr_blitz, base)
        coverage_component == CoverageComponent(t, man_ratio, zone_ratio)
        total_safety == TotalSafety(t)
        safety_component ==
            SafetyComponent(
                SafetySum(t, onehigh_ratio, twohigh_ratio, zerohigh_ratio),
                total_safety)
        coverage_safety_ratio ==
            CoverageSafetyRatio(coverage_component, safety_component)
        blitz_component == BlitzComponent(t.blitz_pct, blitz_ratio)
        expected_ratio == ExpectedRatio(coverage_safety_ratio, blitz_component)
        adjusted_yprr == AdjustedYprr(base, expected_ratio)
        raw_edge == RawEdge(adjusted_yprr, base)
        edge_pre == EdgePre(raw_edge)
        penalty == Penalty(route_share, c)
    IN  [base |-> base,
         route_share |-> route_share,
         blitz_ratio |-> blitz_ratio,
         coverage_component |-> coverage_component,
         safety_component |-> safety_component,
         total_safety |-> total_safety,
         primary |-> coverage_safety_ratio,
         expected_ratio |-> expected_ratio,
         adjusted_yprr |-> adjusted_yprr,
         raw_edge |-> raw_edge,
         edge_pre |-> edge_pre,
         penalty |-> penalty,
         edge_score |-> EdgeScore(edge_pre, penalty)]

\* fault model: the penalty applied to the adjusted efficiency as well
Emit_PenalizedAdjusted(row, l) ==
    [Player |-> row.player,
     Team |-> row.team,
     Opponent |-> row.opponent,
     RouteShare |-> l.route_share,
     BaseYPRR |-> l.base,
     AdjustedYPRR |-> RMul(l.adjusted_yprr, RSub(One, l.penalty)),
     Edge |-> l.edge_score]

\* the dict appended to results
Emit(row, l) ==
    [Player |-> row.player,
     Team |-> row.team,
     Opponent |-> row.opponent,
     RouteShare |-> l.route_share,
     BaseYPRR |-> l.base,
     AdjustedYPRR |-> l.adjusted_yprr,
     Edge |-> l.edge_score]

----------------------------------------------------------------------------
(* src/Inputs/app.py: the deviation variant *)

Teams(d) == DOMAIN d

RECURSIVE ColSum(_, _, _)
ColSum(d, S, col) ==
    IF S = {} THEN Zero
    ELSE LET t == CHOOSE x \in S : TRUE
         IN  RAdd(d[t][col], ColSum(d, S \ {t}, col))

\* def_df[col].mean(), a module-level value computed before compute_model
LeagueAvg(d, col) ==
    RDiv(ColSum(d, Teams(d), col), <<Cardinality(Teams(d)), 1>>)

BlitzRatioIn(yprr_blitz, base) ==
    RDiv(IF IsNaN(yprr_blitz) THEN base ELSE yprr_blitz, base)

RatioIn(eff, base) == RDiv(eff, base)

CoverageComponentIn(t, man_ratio, zone_ratio) ==
    RAdd(RMul(t.man_pct, man_ratio), RMul(t.zone_pct, zone_ratio))

TotalCoverageIn(t) == RAdd(t.man_pct, t.zone_pct)

SafetySumIn(t, onehigh_ratio, twohigh_ratio, zerohigh_ratio) ==
    RAdd(RAdd(RMul(t.onehigh_pct, onehigh_ratio),
              RMul(t.twohigh_pct, twohigh_ratio)),
         RMul(t.zerohigh_pct, zerohigh_ratio))

TotalSafetyIn(t) == RAdd(RAdd(t.onehigh_pct, t.twohigh_pct), t.zerohigh_pct)

SafetyComponentIn(safety_sum, total_safety) ==
    IF RGt(total_safety, Zero) THEN RDiv(safety_sum, total_safety)
    ELSE safety_sum

SystemARatio(coverage_component, total_coverage, safety_component, total_safety) ==
    IF RGt(RAdd(total_coverage, total_safety), Zero)
    THEN RDiv(RAdd(RMul(coverage_component, total_coverage),
                   RMul(safety_component, total_safety)),
              RAdd(total_coverage, total_safety))
    ELSE RDiv(RAdd(coverage_component, safety_component), Two)

CoverageDev(t, d) ==
    RAdd(RAbs(RSub(t.man_pct, LeagueAvg(d, "man_pct"))),
         RAbs(RSub(t.zone_pct, LeagueAvg(d, "zone_pct"))))

SafetyDev(t, d) ==
    RAdd(RAdd(RAbs(RSub(t.onehigh_pct, LeagueAvg(d, "onehigh_pct"))),
              RAbs(RSub(t.twohigh_pct, LeagueAvg(d, "twohigh_pct")))),
         RAbs(RSub(t.zerohigh_pct, LeagueAvg(d, "zerohigh_pct"))))

\* <<coverage_weight_dev, safety_weight_dev>>
DevWeights(coverage_dev, safety_dev) ==
    IF RGt(RAdd(coverage_dev, safety_dev), Zero)
    THEN <<RDiv(coverage_dev, RAdd(coverage_dev, safety_dev)),
           RDiv(safety_dev, RAdd(coverage_dev, safety_dev))>>
    ELSE <<R(1, 2), R(1, 2)>>

SystemBRatio(coverage_component, safety_component, w) ==
    RAdd(RMul(coverage_component, w[1]), RMul(safety_component, w[2]))

FinalRatio(systemA_ratio, systemB_ratio, deviation_boost) ==
    RAdd(RMul(systemA_ratio, RSub(One, deviation_boost)),
         RMul(systemB_ratio, deviation_boost))

\* (final_ratio + blitz_ratio) / 2
ExpectedRatioIn(final_ratio, blitz_ratio) ==
    RDiv(RAdd(final_ratio, blitz_ratio), Two)

AdjustedYprrIn(base, expected_ratio) == RMul(base, expected_ratio)

RawEdgeIn(adjusted_yprr, base) == RDiv(RSub(adjusted_yprr, base), base)

EdgePreIn(raw_edge) == RMul(RDiv(raw_edge, EdgeCap), Ten)

RouteShareIn(route_share) == IF IsNaN(route_share) THEN Zero ELSE route_share

PenaltyIn(route_share, c) ==
    IF RGe(route_share, c.start_penalty) THEN Zero
    ELSE IF RLe(route_share, c.end_penalty) THEN c.max_penalty
    ELSE RMul(c.max_penalty,
              RPow(RDiv(RSub(c.start_penalty, route_share),
                        RSub(c.start_penalty, c.end_penalty)),
                   c.exponent))

EdgeScoreIn(edge_pre, penalty) == RMul(edge_pre, RSub(One, penalty))

ScoreRowIn(row, t, d, c) ==
    LET base == row.base_yprr
        blitz_ratio == BlitzRatioIn(row.yprr_blitz, base)
        man_ratio == RatioIn(row.yprr_man, base)
        zone_ratio == RatioIn(row.yprr_zone, base)
        onehigh_ratio == RatioIn(row.yprr_1high, base)
        twohigh_ratio == RatioIn(row.yprr_2high, base)
        zerohigh_ratio == RatioIn(row.yprr_0high, base)
        coverage_component == CoverageComponentIn(t, man_ratio, zone_ratio)
        total_coverage == TotalCoverageIn(t)
        total_safety == TotalSafetyIn(t)
        safety_component ==
            SafetyComponentIn(
                SafetySumIn(t, onehigh_ratio, twohigh_ratio, zerohigh_ratio),
                total_safety)
        systemA_ratio ==
            SystemARatio(coverage_component, total_coverage,
                         safety_component, total_safety)
        coverage_dev == CoverageDev(t, d)
        safety_dev == SafetyDev(t, d)
        weights == DevWeights(coverage_dev, safety_dev)
        systemB_ratio == SystemBRatio(coverage_component, safety_component, weights)
        final_ratio == FinalRatio(systemA_ratio, systemB_ratio, c.deviation_boost)
        expected_ratio == ExpectedRatioIn(final_ratio, blitz_ratio)
        adjusted_yprr == AdjustedYprrIn(base, expected_ratio)
        raw_edge == RawEdgeIn(adjusted_yprr, base)
        edge_pre == EdgePreIn(raw_edge)
        route_share == RouteShareIn(row.route_share)
        penalty == PenaltyIn(route_share, c)
    IN  [base |-> base,
         route_share |-> route_share,
         blitz_ratio |-> blitz_ratio,
         coverage_component |-> coverage_component,
         safety_component |-> safety_component,
         total_coverage |-> total_coverage,
         total_safety |-> total_safety,
         systemA_ratio |-> systemA_ratio,
         coverage_dev |-> coverage_dev,
         safety_dev |-> safety_dev,
         weights |-> weights,
         systemB_ratio |-> systemB_ratio,
         primary |-> final_ratio,
         expected_ratio |-> expected_ratio,
         adjusted_yprr |-> adjusted_yprr,
         raw_edge |-> raw_edge,
         edge_pre |-> edge_pre,
         penalty |-> penalty,
         edge_score |-> EdgeScoreIn(edge_pre, penalty)]

\* the dict appended to results (Tm, Vs., Route (%), Adj. YPRR, Matchup (+/-)
\* are written Team, Opponent, RouteShare, AdjustedYPRR, Matchup)
EmitIn(row, l, c) ==
    [Player |-> row.player,
     Team |-> row.team,
     Opponent |-> row.opponent,
     RouteShare |-> l.route_share,
     BaseYPRR |-> Round(l.base, 2),
     AdjustedYPRR |-> Round(l.adjusted_yprr, 2),
     Matchup |-> Round(RMul(l.edge_score, RSub(One, c.deviation_boost)), 1),
     Deviation |-> Round(RMul(l.edge_score, c.deviation_boost), 1),
     Edge |-> Round(l.edge_score, 1)]

----------------------------------------------------------------------------
(* The post-pass: qualification filter, sort, rank *)

Perms(n) == {p \in [1..n -> 1..n] : \A a, b \in 1..n : a # b => p[a] # p[b]}

Reorder(s, p) == [k \in 1..Len(s) |-> s[p[k]]]

\* df[df["Route Share"] >= 0.35] under qualified_toggle
Qualify(rs, t) ==
    IF t.q35 THEN SelectSeq(rs, LAMBDA r : RGe(r.RouteShare, Qualified))
    ELSE rs

\* sort_values("Edge", ascending=False): the default sort is not stable, so
\* rows with equal keys may come out in any order
SortKey(r) == r.Edge

Sorted(s) == \A a, b \in 1..Len(s) : a < b => RGe(SortKey(s[a]), SortKey(s[b]))

\* df["Rank"] = range(1, len(df) + 1)
Ranked(s) == [k \in 1..Len(s) |-> [Rank |-> k] @@ s[k]]

\* the two toggles of the deviation variant, 35 first
QualifyIn(rs, t) ==
    IF t.q35 THEN SelectSeq(rs, LAMBDA r : RGe(r.RouteShare, Qualified35))
    ELSE IF t.q20 THEN SelectSeq(rs, LAMBDA r : RGe(r.RouteShare, Qualified20))
    ELSE rs

\* fault model: the .abs() left out
SortKeyIn_Signed(r) == r.Edge

\* df.reindex(df["Edge"].abs().sort_values(ascending=False).index)
SortKeyIn(r) == RAbs(r.Edge)

SortedIn(s) ==
    \A a, b \in 1..Len(s) : a < b => RGe(SortKeyIn(s[a]), SortKeyIn(s[b]))

\* fault model: range(len(df))
RankedIn_ZeroBased(s) == [k \in 1..Len(s) |-> [Rank |-> k - 1] @@ s[k]]

\* df["Rk"] = range(1, len(df) + 1)
RankedIn(s) == [k \in 1..Len(s) |-> [Rank |-> k] @@ s[k]]

----------------------------------------------------------------------------
(* compute_model as a state machine: one step per loop iteration *)

\* a division by zero leaves a non-finite value in the locals
Faulty(l) ==
    \E f \in {"route_share", "adjusted_yprr", "penalty", "edge_score"} :
        IsNaN(l[f])

BeginBase ==
    /\ pc = "start" /\ variant = "base"
    /\ lead' = LeagueLeadRoutes(wr)
    /\ results' = <<>> /\ locals' = <<>>
    /\ i' = 1
    /\ pc' = "loop"
    /\ UNCHANGED <<variant, wr, def, cfg, tog, out, shown, targets, fades>>

SkipBase ==
    /\ pc = "loop" /\ variant = "base"
    /\ i <= Len(wr)
    /\ ~Eligible(wr[i], def)
    /\ i' = i + 1
    /\ UNCHANGED <<variant, wr, def, cfg, tog, pc, lead, results, locals, out,
                   shown, targets, fades>>

ScoreBase ==
    /\ pc = "loop" /\ variant = "base"
    /\ i <= Len(wr)
    /\ Eligible(wr[i], def)
    /\ LET l == ScoreRow(wr[i], def[wr[i].opponent], cfg, lead)
       IN  /\ locals' = Append(locals, l)
           /\ results' = Append(results, Emit(wr[i], l))
           /\ pc' = IF Faulty(l) THEN "fault" ELSE "loop"
    /\ i' = i + 1
    /\ UNCHANGED <<variant, wr, def, cfg, tog, lead, out, shown, targets, fades>>

FinishBase ==
    /\ pc = "loop" /\ variant = "base"
    /\ i > Len(wr)
    /\ IF results = <<>>
       THEN out' = <<>>
       ELSE \E p \in Perms(Len(Qualify(results, tog))) :
                LET s == Reorder(Qualify(results, tog), p)
                IN  Sorted(s) /\ out' = Ranked(s)
    /\ pc' = "done"
    /\ UNCHANGED <<variant, wr, def, cfg, tog, i, lead, results, locals,
                   shown, targets, fades>>

BeginIn ==
    /\ pc = "start" /\ variant = "inputs"
    /\ results' = <<>> /\ locals' = <<>>
    /\ i' = 1
    /\ pc' = "loop"
    /\ UNCHANGED <<variant, wr, def, cfg, tog, lead, out, shown, targets, fades>>

SkipIn ==
    /\ pc = "loop" /\ variant = "inputs"
    /\ i <= Len(wr)
    /\ ~Eligible(wr[i], def)
    /\ i' = i + 1
    /\ UNCHANGED <<variant, wr, def, cfg, tog, pc, lead, results, locals, out,
                   shown, targets, fades>>

ScoreIn ==
    /\ pc = "loop" /\ variant = "inputs"
    /\ i <= Len(wr)
    /\ Eligible(wr[i], def)
    /\ LET l == ScoreRowIn(wr[i], def[wr[i].opponent], def, cfg)
       IN  /\ locals' = Append(locals, l)
           /\ results' = Append(results, EmitIn(wr[i], l, cfg))
           /\ pc' = IF Faulty(l) THEN "fault" ELSE "loop"
    /\ i' = i + 1
    /\ UNCHANGED <<variant, wr, def, cfg, tog, lead, out, shown, targets, fades>>

FinishIn ==
    /\ pc = "loop" /\ variant = "inputs"
    /\ i > Len(wr)
    /\ IF results = <<>>
       THEN out' = <<>>
       ELSE \E p \in Perms(Len(QualifyIn(results, tog))) :
                LET s == Reorder(QualifyIn(results, tog), p)
                IN  SortedIn(s) /\ out' = RankedIn(s)
    /\ pc' = "done"
    /\ UNCHANGED <<variant, wr, def, cfg, tog, i, lead, results, locals,
                   shown, targets, fades>>

----------------------------------------------------------------------------
(* The page script after compute_model: team filter, targets and fades *)

\* min_edge and min_routes of each page (route share is a fraction in
\* src/app.py and a percentage in src/Inputs/app.py)
min_edge(v) == IF v = "base" THEN R(15, 2) ELSE <<15, 1>>

min_routes(v) == IF v = "base" THEN R(2, 5) ELSE <<30, 1>>

\* results[(results["Edge"] >= min_edge) & (results[share] >= min_routes)]
Targets(rs, edge, routes) ==
    SelectSeq(rs, LAMBDA r : RGe(r.Edge, edge) /\ RGe(r.RouteShare, routes))

\* fault model: the sign of the fade threshold left out
FadeRows_Unsigned(rs, edge, routes) ==
    SelectSeq(rs, LAMBDA r : RLe(r.Edge, edge) /\ RGe(r.RouteShare, routes))

\* results[(results["Edge"] <= -min_edge) & (results[share] >= min_routes)]
FadeRows(rs, edge, routes) ==
    SelectSeq(rs, LAMBDA r : RLe(r.Edge, RNeg(edge)) /\ RGe(r.RouteShare, routes))

\* .sort_values("Edge"): ascending, rows with equal keys in any order
SortedFades(s) ==
    \A a, b \in 1..Len(s) : a < b => RLe(s[a].Edge, s[b].Edge)

\* sorted(results["Tm"].dropna().unique())
team_options(rs) == {rs[k].Team : k \in 1..Len(rs)}

\* results[results["Tm"].isin(selected_teams)], skipped when nothing is selected
TeamFilter(rs, selected_teams) ==
    IF selected_teams = {} THEN rs
    ELSE SelectSeq(rs, LAMBDA r : r.Team \in selected_teams)

\* an empty frame stops the page before the tables are drawn
ShowBase ==
    /\ pc = "done" /\ variant = "base"
    /\ out # <<>>
    /\ shown' = out
    /\ targets' = Targets(out, min_edge(variant), min_routes(variant))
    /\ LET f == FadeRows(out, min_edge(variant), min_routes(variant))
       IN  \E p \in Perms(Len(f)) :
               SortedFades(Reorder(f, p)) /\ fades' = Reorder(f, p)
    /\ pc' = "shown"
    /\ UNCHANGED <<variant, wr, def, cfg, tog, i, lead, results, locals, out>>

ShowIn ==
    /\ pc = "done" /\ variant = "inputs"
    /\ out # <<>>
    /\ \E selected_teams \in SUBSET team_options(out) :
        LET rs == TeamFilter(out, selected_teams)
            f == FadeRows(rs, min_edge(variant), min_routes(variant))
        IN  /\ shown' = rs
            /\ targets' = Targets(rs, min_edge(variant), min_routes(variant))
            /\ \E p \in Perms(Len(f)) :
                   SortedFades(Reorder(f, p)) /\ fades' = Reorder(f, p)
    /\ pc' = "shown"
    /\ UNCHANGED <<variant, wr, def, cfg, tog, i, lead, results, locals, out>>

Next ==
    \/ BeginBase \/ SkipBase \/ ScoreBase \/ FinishBase \/ ShowBase
    \/ BeginIn \/ SkipIn \/ ScoreIn \/ FinishIn \/ ShowIn


----------------------------------------------------------------------------
(* Inputs: the prepared tables and the configuration *)

MaxExponent == 2
MaxRows == 3

Row(player, opp, base, routes, cov, shell, blitz, share) ==
    [player |-> player, team |-> IF player = 1 THEN "T" ELSE "U", opponent |-> opp,
     base_yprr |-> base, routes_played |-> routes,
     yprr_man |-> cov[1], yprr_zone |-> cov[2],
     yprr_1high |-> shell[1], yprr_2high |-> shell[2], yprr_0high |-> shell[3],
     yprr_blitz |-> blitz, route_share |-> share]

Profile(cov, shell, blitz) ==
    [man_pct |-> cov[1], zone_pct |-> cov[2],
     onehigh_pct |-> shell[1], twohigh_pct |-> shell[2],
     zerohigh_pct |-> shell[3], blitz_pct |-> blitz]

Half == R(1, 2)
Quarter == R(1, 4)
Four == <<4, 1>>

\* tendency fractions in [0, 1]
CovMix == {<<Half, Half>>, <<Quarter, Half>>, <<Zero, Zero>>}
ShellMix == {<<Half, Quarter, Half>>, <<Zero, Zero, Zero>>}
BlitzMix == {Zero, Half}

Profiles == {Profile(c, h, b) : c \in CovMix, h \in ShellMix, b \in BlitzMix}

FixedProfile == Profile(<<R(3, 4), Quarter>>, <<Quarter, Half, Quarter>>, Quarter)

\* situational efficiencies as multiples of the base efficiency
CovMults == {<<One, One>>, <<Half, One>>, <<Four, Four>>}
ShellMults == {<<One, One, One>>, <<Half, One, Four>>}
Eight == <<8, 1>>
BlitzMults == {NaN, Half, Eight}

Scaled(ms, b) == [k \in DOMAIN ms |-> RMul(ms[k], b)]

Bases == {One, Two}

Config(mp, ex, st, en, boost) ==
    [max_penalty |-> mp, exponent |-> ex, start_penalty |-> st,
     end_penalty |-> en, deviation_boost |-> boost]

\* thresholds in the unit of the variant's route share (fraction / percent)
DefaultRamp(v) == IF v = "base" THEN <<Half, R(1, 20)>> ELSE <<<<30, 1>>, <<5, 1>>>>
WideRamp(v) == IF v = "base" THEN <<R(3, 4), Quarter>> ELSE <<<<40, 1>>, <<10, 1>>>>
FlatRamps(v) ==
    IF v = "base" THEN {<<Half, Half>>, <<R(1, 20), Half>>}
    ELSE {<<<<30, 1>>, <<30, 1>>>>, <<<<5, 1>>, <<30, 1>>>>}

\* deviation_boost: no such parameter in the baseline, the default otherwise
Boost(v) == IF v = "base" THEN Zero ELSE Quarter

\* <<max_penalty, <<start_penalty, end_penalty>> >>
Ceilings(v) ==
    {<<R(4, 5), DefaultRamp(v)>>, <<R(3, 5), DefaultRamp(v)>>,
     <<R(4, 5), WideRamp(v)>>}

Configs(v) ==
    {Config(m[1], ex, m[2][1], m[2][2], Boost(v)) :
        m \in Ceilings(v), ex \in 1..MaxExponent}
    \cup {Config(R(4, 5), 2, r[1], r[2], Boost(v)) : r \in FlatRamps(v)}

Routes(v) == IF v = "base" THEN {<<5, 1>>, <<30, 1>>, <<50, 1>>} ELSE {<<30, 1>>}
Shares(v) ==
    IF v = "base" THEN {NaN} ELSE {NaN, <<20, 1>>, <<30, 1>>}

ScoredRows(v) ==
    {Row(1, "A", b, r, Scaled(c, b), Scaled(h, b), RMul(z, b), sh) :
        b \in Bases, r \in Routes(v), c \in CovMults, h \in ShellMults,
        z \in BlitzMults, sh \in Shares(v)}

\* a second row: the routes leader, excluded by its base efficiency
LeaderRows ==
    {Row(2, "A", b, <<100, 1>>, <<b, b>>, <<b, b, b>>, NaN, <<50, 1>>) :
        b \in {R(3, 10)}}

\* team B only moves the league averages; equal to A, every deviation is 0
DefTable(a, b) == [t \in {"A", "B"} |-> IF t = "A" THEN a ELSE b]

DefTables(v) ==
    {DefTable(a, FixedProfile) : a \in Profiles}
    \cup IF v = "base" THEN {} ELSE {DefTable(a, a) : a \in Profiles}

NoToggle == [q35 |-> FALSE, q20 |-> FALSE]

Init ==
    /\ variant \in {"base", "inputs"}
    /\ wr \in {<<r, f>> : r \in ScoredRows(variant), f \in LeaderRows}
    /\ def \in DefTables(variant)
    /\ cfg \in Configs(variant)
    /\ tog = NoToggle
    /\ pc = "start"
    /\ i = 0
    /\ lead = NaN
    /\ results = <<>>
    /\ locals = <<>>
    /\ out = <<>>
    /\ shown = <<>>
    /\ targets = <<>>
    /\ fades = <<>>

Spec == Init /\ [][Next]_vars

----------------------------------------------------------------------------
(* Whole tables, for the post-pass: up to MaxRows rows over one defense     *)
(* table and each variant's default configuration                          *)

Neutral3 == <<One, One, One>>

\* <<opponent, base, routes, man/zone mults, shell mults, blitz mult, share>>
RowKinds ==
    {<<"A", Two, <<100, 1>>, <<One, R(5, 4)>>, Neutral3, Two, <<50, 1>> >>,
     <<"A", Two, <<100, 1>>, <<Half, Half>>, <<Half, Half, Half>>, Half, <<50, 1>> >>,
     <<"A", One, <<35, 1>>, <<Half, One>>, Neutral3, NaN, <<20, 1>> >>,
     <<"A", R(2, 5), <<10, 1>>, <<One, Two>>, Neutral3, One, NaN>>,
     <<"A", R(3, 10), <<200, 1>>, <<One, One>>, Neutral3, NaN, <<50, 1>> >>,
     <<"A", One, <<0, 1>>, <<One, One>>, Neutral3, NaN, <<50, 1>> >>,
     <<NoTeam, One, <<100, 1>>, <<One, One>>, Neutral3, NaN, <<50, 1>> >>,
     <<"C", One, <<100, 1>>, <<One, One>>, Neutral3, NaN, <<50, 1>> >>}

KindRow(k, player) ==
    Row(player, k[1], k[2], k[3], Scaled(k[4], k[2]), Scaled(k[5], k[2]),
        RMul(k[6], k[2]), k[7])

Tables ==
    UNION {{[n \in 1..len |-> KindRow(ks[n], n)] : ks \in [1..len -> RowKinds]} :
              len \in 1..MaxRows}

RankProfile == Profile(<<Half, Half>>, <<Half, Quarter, Quarter>>, Half)

DefaultConfig(v) ==
    IF v = "base" THEN Config(R(4, 5), 2, Half, R(1, 20), Boost(v))
    ELSE Config(R(3, 5), 2, <<30, 1>>, <<5, 1>>, Boost(v))

Toggles(v) ==
    IF v = "base" THEN [q35 : BOOLEAN, q20 : {FALSE}]
    ELSE [q35 : BOOLEAN, q20 : BOOLEAN]

InitRank ==
    /\ variant \in {"base", "inputs"}
    /\ wr \in Tables
    /\ def = DefTable(RankProfile, FixedProfile)
    /\ cfg = DefaultConfig(variant)
    /\ tog \in Toggles(variant)
    /\ pc = "start"
    /\ i = 0
    /\ lead = NaN
    /\ results = <<>>
    /\ locals = <<>>
    /\ out = <<>>
    /\ shown = <<>>
    /\ targets = <<>>
    /\ fades = <<>>

SpecRank == InitRank /\ [][Next]_vars

TypeOK == pc \in {"start", "loop", "done", "shown", "fault"}

----------------------------------------------------------------------------
(* Properties *)

Scored == 1..Len(locals)

\* the input row a result was computed from (players are numbered by row)
RowOf(k) == wr[results[k].Player]

Between(x, lo, hi) == RLe(lo, x) /\ RLe(x, hi)

\* (adjusted - base) / base, before any clamp
Swing(k) ==
    RDiv(RSub(locals[k].adjusted_yprr, locals[k].base), locals[k].base)

\* C1 as stated: in both variants the raw edge of every scored player lies in
\* [-0.25, 0.25] and the edge score before the penalty lies in [-100, 100].
C1_ClampedEverywhere ==
    \A k \in Scored :
        /\ Between(locals[k].raw_edge, RNeg(EdgeCap), EdgeCap)
        /\ Between(locals[k].edge_pre, RNeg(Hundred), Hundred)

\* C1 amended: in the baseline variant (src/app.py) the raw edge of every
\* scored player is the efficiency swing clamped to [-0.25, 0.25], and the edge
\* score before the penalty is 400 times it, hence in [-100, 100].
C1_ClampedInBaseline ==
    variant = "base" =>
        \A k \in Scored :
            /\ locals[k].raw_edge = Clip(Swing(k), RNeg(EdgeCap), EdgeCap)
            /\ Between(locals[k].raw_edge, RNeg(EdgeCap), EdgeCap)
            /\ locals[k].edge_pre = RMul(<<400, 1>>, locals[k].raw_edge)
            /\ Between(locals[k].edge_pre, RNeg(Hundred), Hundred)

\* a baseline row whose swing exceeds +25% and was cut back to the cap
C1_Witness ==
    /\ variant = "base"
    /\ \E k \in Scored :
        /\ RGt(Swing(k), EdgeCap)
        /\ locals[k].raw_edge = EdgeCap
        /\ locals[k].edge_pre = Hundred

\* the piecewise reference of the penalty
RefPenalty(rs, c) ==
    IF RGe(rs, c.start_penalty) THEN Zero
    ELSE IF RLe(rs, c.end_penalty) THEN c.max_penalty
    ELSE RMul(c.max_penalty,
              RPow(RDiv(RSub(c.start_penalty, rs),
                        RSub(c.start_penalty, c.end_penalty)), c.exponent))

\* C2: with start_penalty > end_penalty, the penalty of every scored player is
\* 0 at or above start_penalty (edge unchanged), max_penalty at or below
\* end_penalty, the ramp in between, and the final edge score is the edge
\* score before the penalty times (1 - penalty).  The baseline variant emits
\* that value; the deviation variant emits it rounded to one decimal.
C2_PenaltyPiecewise ==
    RGt(cfg.start_penalty, cfg.end_penalty) =>
        \A k \in Scored :
            LET l == locals[k]
                rs == l.route_share
                final == RMul(l.edge_pre, RSub(One, l.penalty))
            IN  /\ l.penalty = RefPenalty(rs, cfg)
                /\ RGe(rs, cfg.start_penalty) =>
                       l.penalty = Zero /\ l.edge_score = l.edge_pre
                /\ RLe(rs, cfg.end_penalty) =>
                       /\ l.penalty = cfg.max_penalty
                       /\ l.edge_score =
                              RMul(l.edge_pre, RSub(One, cfg.max_penalty))
                /\ l.edge_score = final
                /\ results[k].Edge =
                       IF variant = "base" THEN final ELSE Round(final, 1)

\* a scored player strictly inside the ramp with a non-zero edge
C2_Witness ==
    /\ RGt(cfg.start_penalty, cfg.end_penalty)
    /\ \E k \in Scored :
        /\ RLt(locals[k].route_share, cfg.start_penalty)
        /\ RGt(locals[k].route_share, cfg.end_penalty)
        /\ RGt(locals[k].penalty, Zero)
        /\ RLt(locals[k].penalty, cfg.max_penalty)
        /\ locals[k].edge_pre # Zero

\* the locals of a row scored again in the current run
Rescore(row) ==
    IF variant = "base"
    THEN ScoreRow(row, def[row.opponent], cfg, lead)
    ELSE ScoreRowIn(row, def[row.opponent], def, cfg)

BlitzValues(row) == {RMul(z, row.base_yprr) : z \in BlitzMults \cup {One}}

\* C3: in both variants a null blitz efficiency gives blitz ratio 1, and for a
\* player whose opponent never blitzes the adjusted efficiency is the same for
\* every blitz efficiency, null or not.
C3_BlitzWeightedByRate ==
    \A k \in Scored :
        /\ IsNaN(RowOf(k).yprr_blitz) => locals[k].blitz_ratio = One
        /\ def[RowOf(k).opponent].blitz_pct = Zero =>
               \A z \in BlitzValues(RowOf(k)) :
                   Rescore([RowOf(k) EXCEPT !.yprr_blitz = z]).adjusted_yprr
                       = locals[k].adjusted_yprr

Done == pc = "done"

\* C4 as stated: in both variants the returned table is in descending order of
\* |Edge|.
C4_SortedByMagnitude ==
    Done => \A a, b \in 1..Len(out) :
                a < b => RGe(RAbs(out[a].Edge), RAbs(out[b].Edge))

\* C4 amended: the deviation variant (src/Inputs/app.py) returns its rows in
\* descending order of |Edge|; the baseline variant (src/app.py) returns them
\* in descending order of the signed Edge.
C4_SortedPerVariant ==
    Done => \A a, b \in 1..Len(out) :
                a < b =>
                    IF variant = "inputs"
                    THEN RGe(RAbs(out[a].Edge), RAbs(out[b].Edge))
                    ELSE RGe(out[a].Edge, out[b].Edge)

\* the deviation variant ranks a strongly negative edge above a weaker
\* positive one
C4_Witness ==
    /\ Done /\ variant = "inputs"
    /\ \E a, b \in 1..Len(out) :
        /\ out[a].Rank < out[b].Rank
        /\ RLt(out[a].Edge, Zero) /\ RGt(out[b].Edge, Zero)
        /\ RGt(RAbs(out[a].Edge), out[b].Edge)

\* the claims' eligibility rule
Excluded(row) ==
    \/ RLt(row.base_yprr, R(2, 5))
    \/ RLe(row.routes_played, Zero)
    \/ row.opponent = NoTeam
    \/ row.opponent \notin DOMAIN def

EligibleRows(n) == {k \in 1..n : ~Excluded(wr[k])}

\* the route-share threshold in force: <<on, threshold>>
Threshold ==
    IF variant = "base" THEN <<tog.q35, R(35, 100)>>
    ELSE IF tog.q35 THEN <<TRUE, <<35, 1>> >>
    ELSE <<tog.q20, <<20, 1>> >>

Qualifies(r) == Threshold[1] => RGe(r.RouteShare, Threshold[2])

\* C5: in a non-empty returned table the ranks are exactly 1..M, each once,
\* where M counts the eligible rows that pass the qualification filter; every
\* returned row passes the filter and every scored row that passes is returned.
C5_RankBijection ==
    (Done /\ out # <<>>) =>
        LET M == Cardinality({k \in 1..Len(results) : Qualifies(results[k])})
        IN  /\ Len(results) = Cardinality(EligibleRows(Len(wr)))
            /\ Len(out) = M
            /\ \A r \in 1..M :
                   Cardinality({k \in 1..Len(out) : out[k].Rank = r}) = 1
            /\ \A k \in 1..Len(out) : out[k].Rank \in 1..M /\ Qualifies(out[k])
            /\ {out[k].Player : k \in 1..Len(out)} =
                   {results[k].Player :
                       k \in {j \in 1..Len(results) : Qualifies(results[j])}}

\* a filtered table: a scored row dropped, two rows with equal edges kept
C5_Witness ==
    /\ Done /\ Threshold[1]
    /\ Len(out) >= 2 /\ Len(out) < Len(results)
    /\ \E a, b \in 1..Len(out) : a # b /\ out[a].Edge = out[b].Edge

\* the emitted adjusted efficiency of a row scored as the only row of a table
AloneAdjusted(row) ==
    IF variant = "base"
    THEN Emit(row, ScoreRow(row, def[row.opponent], cfg,
                            LeagueLeadRoutes(<<row>>))).AdjustedYPRR
    ELSE EmitIn(row, ScoreRowIn(row, def[row.opponent], def, cfg),
                cfg).AdjustedYPRR

\* C6: the loop emits one result per eligible row, in input order, and none for
\* a row with base < 0.4, routes <= 0 or no defense record; no exclusion ends
\* the run in a fault or changes another row's adjusted efficiency; when every
\* row is excluded the function returns the empty table.
C6_OneResultPerEligibleRow ==
    /\ pc # "fault"
    /\ pc \in {"loop", "done"} =>
        /\ {results[k].Player : k \in 1..Len(results)} = EligibleRows(i - 1)
        /\ Len(results) = Cardinality(EligibleRows(i - 1))
        /\ \A a, b \in 1..Len(results) :
               a < b => results[a].Player < results[b].Player
        /\ \A k \in 1..Len(results) :
               results[k].AdjustedYPRR = AloneAdjusted(RowOf(k))
    /\ (Done /\ EligibleRows(Len(wr)) = {}) => out = <<>>

\* an excluded row between two scored rows
C6_Witness ==
    /\ Done /\ Len(wr) = 3
    /\ ~Excluded(wr[1]) /\ Excluded(wr[2]) /\ ~Excluded(wr[3])
    /\ Len(results) = 2 /\ Len(out) = 2

MostRoutes(S) ==
    CHOOSE r \in {wr[k].routes_played : k \in S} :
        \A k \in S : RLe(wr[k].routes_played, r)

\* C7 as stated: in the baseline variant a scored player's route share is its
\* routes over the most routes among the eligible rows, so the eligible player
\* with the most routes has route share 1.
C7_ShareOfEligibleLead ==
    variant = "base" =>
        \A k \in Scored :
            /\ locals[k].route_share =
                   RDiv(RowOf(k).routes_played, MostRoutes(EligibleRows(Len(wr))))
            /\ \E j \in EligibleRows(Len(wr)) :
                   RDiv(wr[j].routes_played, lead) = One

\* C7 amended: in the baseline variant a scored player's route share is its
\* routes over the most routes among all input rows, excluded rows included;
\* the eligible player with the most routes has route share 1 exactly when no
\* excluded row has more routes.
C7_ShareOfLeagueLead ==
    variant = "base" =>
        \A k \in Scored :
            /\ lead = MostRoutes(1..Len(wr))
            /\ locals[k].route_share = RDiv(RowOf(k).routes_played, lead)
            /\ RLe(locals[k].route_share, One)
            /\ (\E j \in EligibleRows(Len(wr)) :
                    RDiv(wr[j].routes_played, lead) = One)
               <=> MostRoutes(EligibleRows(Len(wr))) = lead

\* an excluded row leads the league: no scored player reaches route share 1
C7_Witness ==
    /\ Done /\ variant = "base" /\ Len(locals) >= 2
    /\ \E j \in 1..Len(wr) :
        /\ Excluded(wr[j])
        /\ \A k \in EligibleRows(Len(wr)) :
               RLt(wr[k].routes_played, wr[j].routes_played)
    /\ \A k \in Scored : RLt(locals[k].route_share, One)


\* all five situational efficiencies equal the base, no blitz sample, and a
\* route share at or above start_penalty
Neutral(k) ==
    /\ \A f \in {"yprr_man", "yprr_zone", "yprr_1high", "yprr_2high", "yprr_0high"} :
           RowOf(k)[f] = RowOf(k).base_yprr
    /\ IsNaN(RowOf(k).yprr_blitz)
    /\ RGe(locals[k].route_share, cfg.start_penalty)

ScoresZero(k) ==
    /\ locals[k].coverage_component = One
    /\ locals[k].safety_component = One
    /\ locals[k].primary = One
    /\ locals[k].expected_ratio = One
    /\ locals[k].adjusted_yprr = locals[k].base
    /\ locals[k].edge_score = Zero
    /\ results[k].AdjustedYPRR = results[k].BaseYPRR
    /\ results[k].Edge = Zero

TendenciesOf(k) == def[RowOf(k).opponent]

\* C8 as stated: a neutral player has coverage = safety = primary = expected
\* ratio 1, adjusted efficiency = base and edge 0 against every defense profile
\* with fractions in [0, 1].
C8_NeutralScoresZero == \A k \in Scored : Neutral(k) => ScoresZero(k)

\* C8 amended: a neutral player has coverage = safety = primary = expected
\* ratio 1, adjusted efficiency = base and edge 0 against every defense profile
\* whose man and zone rates sum to 1 and whose safety-shell rates sum to more
\* than 0 (the shell rates need not sum to 1).
C8_NeutralScoresZeroNormalised ==
    \A k \in Scored :
        ( /\ Neutral(k)
          /\ RAdd(TendenciesOf(k).man_pct, TendenciesOf(k).zone_pct) = One
          /\ RGt(locals[k].total_safety, Zero) )
        => ScoresZero(k)

\* a neutral player against man + zone = 1 and shell rates summing to 5/4
C8_Witness ==
    \E k \in Scored :
        /\ Neutral(k)
        /\ RAdd(TendenciesOf(k).man_pct, TendenciesOf(k).zone_pct) = One
        /\ RGt(locals[k].total_safety, One)
        /\ ScoresZero(k)

Finite(l) == \A f \in DOMAIN l : f # "weights" => ~IsNaN(l[f])

\* C9: no division by zero for any eligible row and any profile with fractions
\* in [0, 1]: the run never faults and every local is finite; a zero shell sum
\* leaves the safety component undivided (0); a zero coverage + safety weight
\* gives the unweighted mean; a zero deviation sum gives 50/50 weights; the
\* league-lead routes are > 0 once a row is scored; the ramp is only evaluated
\* with start_penalty - end_penalty non-zero.
C9_NoDivisionByZero ==
    /\ pc # "fault"
    /\ \A k \in Scored :
        LET l == locals[k] IN
        /\ Finite(l)
        /\ l.total_safety = Zero => l.safety_component = Zero
        /\ variant = "base" => RGt(lead, Zero)
        /\ (RLt(cfg.end_penalty, l.route_share)
                /\ RLt(l.route_share, cfg.start_penalty))
           => /\ RSub(cfg.start_penalty, cfg.end_penalty) # Zero
              /\ l.penalty = RefPenalty(l.route_share, cfg)
        /\ variant = "inputs" =>
            /\ ~IsNaN(l.weights[1]) /\ ~IsNaN(l.weights[2])
            /\ RAdd(l.total_coverage, l.total_safety) = Zero =>
                   l.systemA_ratio =
                       RDiv(RAdd(l.coverage_component, l.safety_component), Two)
            /\ RAdd(l.coverage_dev, l.safety_dev) = Zero =>
                   l.weights = <<R(1, 2), R(1, 2)>>

\* a row scored against an all-zero profile that equals the league average
C9_Witness ==
    /\ Done /\ variant = "inputs"
    /\ \E k \in Scored :
        /\ RAdd(locals[k].total_coverage, locals[k].total_safety) = Zero
        /\ RAdd(locals[k].coverage_dev, locals[k].safety_dev) = Zero
        /\ locals[k].total_safety = Zero

\* other route figures (routes_played, route_share) and other penalty
\* parameters (max_penalty, exponent, start_penalty, end_penalty) for a player
Alternatives ==
    {<< <<1, 1>>, <<2, 1>>, One, 3, One, Zero>>,
     << <<400, 1>>, <<90, 1>>, Half, 1, cfg.end_penalty, cfg.start_penalty>>}

\* what the run emits for row n with those figures and parameters
EmittedWith(n, alt) ==
    LET row == [wr[n] EXCEPT !.routes_played = alt[1], !.route_share = alt[2]]
        c == [cfg EXCEPT !.max_penalty = alt[3], !.exponent = alt[4],
                         !.start_penalty = alt[5], !.end_penalty = alt[6]]
    IN  IF variant = "base"
        THEN Emit(row, ScoreRow(row, def[row.opponent], c,
                                LeagueLeadRoutes([wr EXCEPT ![n] = row])))
        ELSE EmitIn(row, ScoreRowIn(row, def[row.opponent], def, c), c)

PenaltyFrame(k) ==
    \A alt \in Alternatives :
        LET e == EmittedWith(results[k].Player, alt)
        IN  \A f \in {"Player", "Team", "Opponent", "BaseYPRR", "AdjustedYPRR"} :
                e[f] = results[k][f]

\* C10 as stated: the emitted adjusted efficiency is base x expected ratio, and
\* it, the emitted base efficiency and the identity fields are the same under
\* any other route share and any other penalty parameters.
C10_PenaltyTouchesEdgeOnly ==
    Done => \A k \in Scored :
                /\ results[k].AdjustedYPRR =
                       RMul(locals[k].base, locals[k].expected_ratio)
                /\ PenaltyFrame(k)

\* C10 amended: the emitted adjusted efficiency is base x expected ratio in the
\* baseline variant and that product rounded to two decimals in the deviation
\* variant; it, the emitted base efficiency and the identity fields are the
\* same under any other route share and any other penalty parameters.
C10_PenaltyTouchesEdgeOnlyRounded ==
    Done => \A k \in Scored :
                /\ results[k].AdjustedYPRR =
                       IF variant = "base"
                       THEN RMul(locals[k].base, locals[k].expected_ratio)
                       ELSE Round(RMul(locals[k].base, locals[k].expected_ratio), 2)
                /\ PenaltyFrame(k)

\* a penalised player of the deviation variant whose product has more than
\* two decimals
C10_Witness ==
    /\ Done /\ variant = "inputs"
    /\ \E k \in Scored :
        /\ RGt(locals[k].penalty, Zero)
        /\ locals[k].edge_score # locals[k].edge_pre
        /\ results[k].AdjustedYPRR # locals[k].adjusted_yprr

----------------------------------------------------------------------------
(* C11: targets and fades *)

Shown == pc = "shown"

RanksOf(s) == {s[k].Rank : k \in 1..Len(s)}

\* the claim's two conditions, on one displayed row
IsTarget(r, T, m) == RGe(r.Edge, T) /\ RGe(r.RouteShare, m)

IsFade(r, T, m) == RLe(r.Edge, RNeg(T)) /\ RGe(r.RouteShare, m)

\* thresholds T > 0 around the displayed edges, each page's own among them
EdgeThresholds ==
    {R(1, 10), R(15, 2), <<15, 1>>, <<20, 1>>, <<25, 1>>, Hundred, <<101, 1>>}

\* C11: once the page is drawn, no displayed row is both a target and a fade;
\* every target has Edge >= +min_edge and route share >= min_routes, every
\* fade has Edge <= -min_edge and route share >= min_routes, each displayed
\* row that meets the conditions is listed exactly once, and for every
\* threshold T > 0 the two selections from the displayed table share no row.
C11_TargetsFadesDisjoint ==
    Shown =>
        LET T == min_edge(variant)
            m == min_routes(variant)
        IN  /\ RanksOf(targets) \cap RanksOf(fades) = {}
            /\ \A k \in 1..Len(targets) :
                   /\ \E j \in 1..Len(shown) : shown[j] = targets[k]
                   /\ IsTarget(targets[k], T, m)
            /\ \A k \in 1..Len(fades) :
                   /\ \E j \in 1..Len(shown) : shown[j] = fades[k]
                   /\ IsFade(fades[k], T, m)
            /\ \A j \in 1..Len(shown) :
                   /\ IsTarget(shown[j], T, m) <=>
                          Cardinality({k \in 1..Len(targets) :
                                          targets[k] = shown[j]}) = 1
                   /\ IsFade(shown[j], T, m) <=>
                          Cardinality({k \in 1..Len(fades) :
                                          fades[k] = shown[j]}) = 1
            /\ Len(targets) = Cardinality(RanksOf(targets))
            /\ Len(fades) = Cardinality(RanksOf(fades))
            /\ \A T2 \in {t \in EdgeThresholds : RGt(t, Zero)} :
                   RanksOf(Targets(shown, T2, m))
                       \cap RanksOf(FadeRows(shown, T2, m)) = {}

\* a drawn page with a target, a fade, and a row with a large enough edge
\* that is left out of both for its route share
C11_Witness ==
    /\ Shown
    /\ targets # <<>> /\ fades # <<>>
    /\ \E j \in 1..Len(shown) :
           /\ RGe(RAbs(shown[j].Edge), min_edge(variant))
           /\ shown[j].Rank \notin RanksOf(targets) \cup RanksOf(fades)

====
